---- MODULE Spec2Model ----
(***************************************************************************)
(* A model of zip_scripts.js: the ZIP encoder createZIP (CRC-32, the       *)
(* fixed-width little-endian field writers, the three-phase write) and    *)
(* the page's handlers around it (addFile, the FileReader load callback,   *)
(* addDirectory, the Remove buttons, createZIPWithFile).                   *)
(*                                                                         *)
(* zip_scripts.js holds two successive copies of the script.  The second   *)
(* copy (lines 233-521) redeclares every function of the first, so it is   *)
(* the one in effect and the one modelled here; the first copy differs in  *)
(* is_dir (always false, line 74) and has no addDirectory and no Remove.   *)
(*                                                                         *)
(* Representation.  A JavaScript string is a sequence of UTF-16 code       *)
(* units, an ArrayBuffer a sequence of bytes.  A JavaScript Number that    *)
(* goes through a bitwise operator is a pair <<hi, lo>> of 16-bit limbs    *)
(* standing for hi * 65536 + lo, with lo in 0..65535 and hi signed, so     *)
(* that both the Int32 and the Uint32 results of the operators have a      *)
(* value here (TLC's integers stop at 2^31 - 1).                           *)
(***************************************************************************)
EXTENDS Integers, Sequences, FiniteSets, TLC

VARIABLES
    files_to_zip,   \* the global files_to_zip: the pending entries
    file_display,   \* the <li> items of file_display, each with its button's captured i
    input_path,     \* input_path.value
    file_selector,  \* file_selector.files: empty, or the one selected file
    readers,        \* FileReaders whose readAsArrayBuffer has not completed yet
    files,          \* the argument of the last call of createZIP
    zip,            \* what that call returned
    crc_data,       \* the argument of a call of calcCRC32
    crc_value,      \* what that call returned
    end_in,         \* files_complete.length, offset_count and central_dir_offset at line 387
    end_out         \* the end of central directory record written from them

vars == <<files_to_zip, file_display, input_path, file_selector, readers,
          files, zip, crc_data, crc_value, end_in, end_out>>

ui_vars == <<files_to_zip, file_display, input_path, file_selector, readers>>

(***************************************************************************)
(* Bounds of the model.                                                    *)
(***************************************************************************)
MaxFiles == 3        \* entries in files_to_zip
MaxReaders == 2      \* FileReaders in flight
MaxEntries == 2      \* entries of a list handed straight to createZIP
MaxCrcLen == 3       \* bytes of an argument of calcCRC32
MaxCount == 40       \* how far around 0 and around 2^16 the entry counts of end_in go

(***************************************************************************)
(* Widths of the fields and sizes of the buffers of the format.            *)
(***************************************************************************)
Half == 65536            \* 2^16: one 16-bit limb, the range of a 2-byte field
LocalHeaderSize == 30
CentralHeaderSize == 46
EndRecordSize == 22

(***************************************************************************)
(* Only({e : x \in {v}}) is e with x standing for the value of v; it is     *)
(* how a loop hands the value of one iteration to the next.                *)
(***************************************************************************)
Only(S) == CHOOSE x \in S : TRUE

(***************************************************************************)
(* JavaScript's 32-bit operators on limb pairs.                            *)
(***************************************************************************)
Num(n) == <<n \div Half, n % Half>>

\* ToUint32: the operand of >>>, and its result
ToUint32(v) == <<v[1] % Half, v[2]>>

\* ToInt32: the result of ^, & and ~
ToInt32(v) == LET h == v[1] % Half IN <<IF h >= Half \div 2 THEN h - Half ELSE h, v[2]>>

RECURSIVE XorBits(_, _, _)
XorBits(a, b, width) ==
    IF width = 0 THEN 0
    ELSE ((a + b) % 2) + 2 * XorBits(a \div 2, b \div 2, width - 1)

\* a ^ b
Xor(a, b) ==
    ToInt32(<<XorBits(ToUint32(a)[1], ToUint32(b)[1], 16), XorBits(a[2], b[2], 16)>>)

\* a >>> 1
UShr1(a) ==
    LET u == ToUint32(a) IN <<u[1] \div 2, (u[2] \div 2) + (Half \div 2) * (u[1] % 2)>>

\* ~a
Not(a) == LET u == ToUint32(a) IN ToInt32(<<(Half - 1) - u[1], (Half - 1) - u[2]>>)

\* a >>> 0
UShr0(a) == ToUint32(a)

AllOnes == <<Half - 1, Half - 1>>      \* 0xFFFFFFFF
Polynomial == <<60856, 33568>>         \* 0xEDB88320 = 0xEDB8 * 65536 + 0x8320

(***************************************************************************)
(* calcCRC32 (lines 253-268).                                              *)
(***************************************************************************)
\* crc after one pass through the body of the inner loop (lines 258-262)
crc_round(c, crc) ==
    LET b == Xor(Num(c), crc)[2] % 2               \* (c ^ crc) & 1
    IN  IF b = 1
        THEN Xor(UShr1(crc), Polynomial)           \* crc >>>= 1; crc = crc ^ 0xEDB88320
        ELSE UShr1(crc)                            \* crc >>>= 1

\* the inner loop, entered with j rounds still to run
RECURSIVE crc_rounds(_, _, _)
crc_rounds(c, crc, j) ==
    IF j = 0 THEN crc
    ELSE Only({crc_rounds(c \div 2, x, j - 1) : x \in {crc_round(c, crc)}})  \* c >>>= 1

\* the outer loop, from data[i] on
RECURSIVE crc_bytes(_, _, _)
crc_bytes(data, i, crc) ==
    IF i > Len(data) THEN crc
    ELSE Only({crc_bytes(data, i + 1, x) : x \in {crc_rounds(data[i], crc, 8)}})

\* a plausible slip: return ~crc, an Int32, without the final >>> 0
calcCRC32_signed(data) == Only({Not(x) : x \in {crc_bytes(data, 1, AllOnes)}})

\* return ~crc >>> 0 (line 267)
calcCRC32(data) == Only({UShr0(Not(x)) : x \in {crc_bytes(data, 1, AllOnes)}})

(***************************************************************************)
(* write4B and write2B (lines 280-300).  A buffer is a function from       *)
(* 0-based indices to bytes; new ArrayBuffer(n) is zero-filled.            *)
(***************************************************************************)
ArrayBuffer(n) == [i \in 0..(n - 1) |-> 0]

\* byte n (0 = least significant) of the 32 bits that & sees of value
ByteOf(value, n) ==
    LET u == ToUint32(value)
    IN  CASE n = 0 -> u[2] % 256       \* value & 0xFF
          [] n = 1 -> u[2] \div 256    \* (value & 0xFF00) >> 8
          [] n = 2 -> u[1] % 256       \* (value & 0xFF0000) >> 16
          [] n = 3 -> u[1] \div 256    \* (value & 0xFF000000) >>> 24

write4B(arr, start_i, value) ==
    [arr EXCEPT ![start_i] = ByteOf(value, 0),
                ![start_i + 1] = ByteOf(value, 1),
                ![start_i + 2] = ByteOf(value, 2),
                ![start_i + 3] = ByteOf(value, 3)]

write2B(arr, start_i, value) ==
    [arr EXCEPT ![start_i] = ByteOf(value, 0),
                ![start_i + 1] = ByteOf(value, 1)]

\* the bytes of a buffer, in order
Bytes(arr) == [i \in 1..Cardinality(DOMAIN arr) |-> arr[i - 1]]

(***************************************************************************)
(* new Blob(zip_data) (line 406): the parts in order, an ArrayBuffer part  *)
(* as its bytes, a string part as its UTF-8 encoding.  The code units of   *)
(* the model are below the surrogate range, so each encodes on its own.    *)
(***************************************************************************)
UTF8Unit(u) ==
    IF u < 128 THEN <<u>>
    ELSE IF u < 2048 THEN <<192 + (u \div 64), 128 + (u % 64)>>
    ELSE <<224 + (u \div 4096), 128 + ((u \div 64) % 64), 128 + (u % 64)>>

RECURSIVE UTF8(_)
UTF8(str) == IF str = <<>> THEN <<>> ELSE UTF8Unit(Head(str)) \o UTF8(Tail(str))

BufferPart(bytes) == [string |-> FALSE, val |-> bytes]
StringPart(str) == [string |-> TRUE, val |-> str]

BlobPart(part) == IF part.string THEN UTF8(part.val) ELSE part.val

RECURSIVE Blob(_)
Blob(parts) == IF parts = <<>> THEN <<>> ELSE BlobPart(Head(parts)) \o Blob(Tail(parts))

(***************************************************************************)
(* createZIP (lines 247-407).                                              *)
(***************************************************************************)
Slash == 47                            \* "/"
LocalSignature == <<1027, 19280>>      \* 0x04034B50
CentralSignature == <<513, 19280>>     \* 0x02014B50
EndSignature == <<1541, 19280>>        \* 0x06054B50
DirMode == 16877                       \* 0o00040755
FileMode == 33188                      \* 0o00100644
Null == "null"

\* the first copy of the script: is_dir: false (line 74)
is_dir_never(name) == FALSE

\* file.name[file.name.length - 1] === "/" (undefined for the empty name)
is_dir(name) == Len(name) > 0 /\ name[Len(name)] = Slash

\* files.map(...) (lines 302-308)
files_complete(fs) ==
    [k \in 1..Len(fs) |->
        [name |-> fs[k].name,
         data |-> fs[k].data,
         crc |-> calcCRC32(fs[k].data),
         is_dir |-> is_dir(fs[k].name),
         local_header_offset |-> Null]]

\* the header of one iteration of the first loop (lines 317-336)
LocalHeader(file) ==
    LET h0 == write4B(ArrayBuffer(LocalHeaderSize), 0, LocalSignature)
        h1 == write2B(h0, 26, Num(Len(file.name)))
    IN  IF file.is_dir
        THEN [h1 EXCEPT ![4] = 20]
        ELSE write4B(write4B(write4B([h1 EXCEPT ![4] = 10],
                                     14, file.crc),
                             18, Num(Len(file.data))),
                     22, Num(Len(file.data)))

\* the first loop (lines 316-345) from entry k on; st holds files_complete,
\* zip_data and offset_count
RECURSIVE LocalFiles(_, _)
LocalFiles(st, k) ==
    IF k > Len(st.files_complete) THEN st
    ELSE LET file == st.files_complete[k]
             header == LocalHeader(file)
             after ==
                 [files_complete |->
                      [st.files_complete EXCEPT ![k].local_header_offset = st.offset_count],
                  zip_data |-> st.zip_data \o <<BufferPart(Bytes(header)),
                                               StringPart(file.name),
                                               BufferPart(file.data)>>,
                  offset_count |-> st.offset_count + LocalHeaderSize
                                       + Len(file.name) + Len(file.data)]
         IN  Only({LocalFiles(x, k + 1) : x \in {after}})

\* a plausible slip: the mode written at the start of the field (38), not in its high half
CentralHeader_attrs_low(file) ==
    LET h0 == write4B(ArrayBuffer(CentralHeaderSize), 0, CentralSignature)
        h1 == [h0 EXCEPT ![4] = 63, ![5] = 3]
        h2 == write2B(h1, 28, Num(Len(file.name)))
        h3 == write4B(h2, 42, Num(file.local_header_offset))
    IN  IF file.is_dir
        THEN write2B([h3 EXCEPT ![6] = 20], 38, Num(DirMode))
        ELSE write2B(write4B(write4B(write4B([h3 EXCEPT ![6] = 10],
                                             16, file.crc),
                                     20, Num(Len(file.data))),
                             24, Num(Len(file.data))),
                     38, Num(FileMode))

\* the header of one iteration of the second loop (lines 351-379)
CentralHeader(file) ==
    LET h0 == write4B(ArrayBuffer(CentralHeaderSize), 0, CentralSignature)
        h1 == [h0 EXCEPT ![4] = 63, ![5] = 3]
        h2 == write2B(h1, 28, Num(Len(file.name)))
        h3 == write4B(h2, 42, Num(file.local_header_offset))
    IN  IF file.is_dir
        THEN write2B([h3 EXCEPT ![6] = 20], 40, Num(DirMode))
        ELSE write2B(write4B(write4B(write4B([h3 EXCEPT ![6] = 10],
                                             16, file.crc),
                                     20, Num(Len(file.data))),
                             24, Num(Len(file.data))),
                     40, Num(FileMode))

\* a plausible slip: the second loop walking files_complete from its last entry
RECURSIVE CentralDirectory_reversed(_, _)
CentralDirectory_reversed(st, k) ==
    IF k > Len(st.files_complete) THEN st
    ELSE LET file == st.files_complete[Len(st.files_complete) + 1 - k]
             header == CentralHeader(file)
             after ==
                 [st EXCEPT !.zip_data = @ \o <<BufferPart(Bytes(header)),
                                               StringPart(file.name)>>,
                            !.offset_count = @ + CentralHeaderSize + Len(file.name)]
         IN  Only({CentralDirectory_reversed(x, k + 1) : x \in {after}})

\* the second loop (lines 350-385) from entry k on
RECURSIVE CentralDirectory(_, _)
CentralDirectory(st, k) ==
    IF k > Len(st.files_complete) THEN st
    ELSE LET file == st.files_complete[k]
             header == CentralHeader(file)
             after ==
                 [st EXCEPT !.zip_data = @ \o <<BufferPart(Bytes(header)),
                                               StringPart(file.name)>>,
                            !.offset_count = @ + CentralHeaderSize + Len(file.name)]
         IN  Only({CentralDirectory(x, k + 1) : x \in {after}})

\* a + b and a - b on limb pairs
NumAdd(a, b) ==
    LET lo == a[2] + b[2]
    IN  IF lo >= Half THEN <<a[1] + b[1] + 1, lo - Half>> ELSE <<a[1] + b[1], lo>>

NumSub(a, b) ==
    LET lo == a[2] - b[2]
    IN  IF lo < 0 THEN <<a[1] - b[1] - 1, lo + Half>> ELSE <<a[1] - b[1], lo>>

\* the end of central directory record (lines 389-401); the three Numbers as limb pairs
EndRecord(length, offset_count, central_dir_offset) ==
    write4B(write4B(write2B(write2B(write4B(ArrayBuffer(EndRecordSize),
                                            0, EndSignature),
                                    8, length),
                            10, length),
                    12, NumSub(offset_count, central_dir_offset)),
            16, central_dir_offset)

\* zip_data when createZIP returns: st0 is the state at line 314, st1 at line 347,
\* st2 at line 387
zip_data(fs) ==
    Only({
        Only({
            Only({
                st2.zip_data \o <<BufferPart(Bytes(                  \* line 403
                    EndRecord(Num(Len(st2.files_complete)), Num(st2.offset_count),
                              Num(st1.offset_count))))>>              \* central_dir_offset
                : st2 \in {CentralDirectory(st1, 1)}})
            : st1 \in {LocalFiles(st0, 1)}})
        : st0 \in {[files_complete |-> files_complete(fs),
                    zip_data |-> <<>>, offset_count |-> 0]}})

createZIP(fs) == Blob(zip_data(fs))

(***************************************************************************)
(* The page: updateFileDisplay, determinePath, addFile, addDirectory,      *)
(* createZIPWithFile (lines 417-522).                                      *)
(***************************************************************************)
\* a.localeCompare(b) as -1, 0 or 1: code unit by code unit, a proper prefix first.
\* On the code units of the model ("/" < "a" < "b" < e-acute) this is the order of
\* the root collation.
RECURSIVE localeCompare(_, _)
localeCompare(a, b) ==
    IF a = <<>> THEN (IF b = <<>> THEN 0 ELSE -1)
    ELSE IF b = <<>> THEN 1
    ELSE IF Head(a) < Head(b) THEN -1
    ELSE IF Head(a) > Head(b) THEN 1
    ELSE localeCompare(Tail(a), Tail(b))

\* list is sorted; x goes after every element that does not compare greater (stable)
RECURSIVE Insert(_, _)
Insert(list, x) ==
    IF list = <<>> THEN <<x>>
    ELSE IF localeCompare(list[Len(list)].name, x.name) <= 0 THEN Append(list, x)
    ELSE Append(Insert(SubSeq(list, 1, Len(list) - 1), x), list[Len(list)])

\* list.sort((a, b) => a.name.localeCompare(b.name)) (line 433); sort is stable
RECURSIVE sort(_)
sort(list) ==
    IF list = <<>> THEN <<>>
    ELSE Only({Insert(s, list[Len(list)]) : s \in {sort(SubSeq(list, 1, Len(list) - 1))}})

Space == 32

\* the <li> items built by the loop of lines 437-450: the index i the button's
\* listener closes over, and the text beside the button
Items(list) == [k \in 1..Len(list) |-> [i |-> k - 1, text |-> <<Space>> \o list[k].name]]

\* a plausible slip: the items built before the list is sorted
updateFileDisplay_late_sort(list) ==
    Only({[files_to_zip |-> sorted, file_display |-> Items(list)] : sorted \in {sort(list)}})

\* updateFileDisplay (lines 432-451) on a value of files_to_zip
updateFileDisplay(list) ==
    Only({[files_to_zip |-> sorted, file_display |-> Items(sorted)] : sorted \in {sort(list)}})

\* determinePath (lines 458-466)
determinePath ==
    IF Len(input_path) # 0 /\ input_path[Len(input_path)] # Slash
    THEN Append(input_path, Slash)
    ELSE input_path

\* createFileDataObject (lines 417-422)
createFileDataObject(n, d) == [name |-> n, data |-> d]

\* what the user can type and select
PathTexts == {<<>>, <<97>>, <<97, 47>>}                 \* "", "a", "a/"
SelectableFiles == {[name |-> <<98>>, data |-> <<97>>]} \* a file "b" holding "a"

NotBuilt == [built |-> FALSE, blob |-> <<>>]

\* the user edits the path text
TypePath(p) ==
    /\ input_path' = p
    /\ UNCHANGED <<files_to_zip, file_display, file_selector, readers,
                   files, zip, crc_data, crc_value, end_in, end_out>>

\* the user picks a file, or clears the selection
SelectFile(fl) ==
    /\ file_selector' = fl
    /\ UNCHANGED <<files_to_zip, file_display, input_path, readers,
                   files, zip, crc_data, crc_value, end_in, end_out>>

\* addFile (lines 476-491): the read is started, the entry is added at onload
addFile ==
    /\ file_selector # <<>>                              \* if (file)
    /\ Len(readers) < MaxReaders
    /\ readers' = Append(readers, file_selector[1])
    /\ UNCHANGED <<files_to_zip, file_display, input_path, file_selector,
                   files, zip, crc_data, crc_value, end_in, end_out>>

\* file_reader.onload (lines 480-486) of the r-th pending reader; the entry carries,
\* beside name and data, which handler added it
onload(r) ==
    /\ Len(files_to_zip) < MaxFiles
    /\ LET file == readers[r]
           path == determinePath
           pushed == Append(files_to_zip,
                            createFileDataObject(path \o file.name, file.data)
                                @@ [directory |-> FALSE])
           shown == updateFileDisplay(pushed)
       IN  /\ files_to_zip' = shown.files_to_zip
           /\ file_display' = shown.file_display
    /\ readers' = [k \in 1..(Len(readers) - 1) |->
                      IF k < r THEN readers[k] ELSE readers[k + 1]]
    /\ UNCHANGED <<input_path, file_selector, files, zip, crc_data, crc_value,
                   end_in, end_out>>

\* addDirectory (lines 500-506)
addDirectory ==
    /\ Len(files_to_zip) < MaxFiles
    /\ LET path == determinePath
           pushed == Append(files_to_zip,
                            createFileDataObject(path, <<>>) @@ [directory |-> TRUE])
           shown == updateFileDisplay(pushed)
       IN  /\ files_to_zip' = shown.files_to_zip
           /\ file_display' = shown.file_display
    /\ UNCHANGED <<input_path, file_selector, readers, files, zip, crc_data, crc_value,
                   end_in, end_out>>

\* files_to_zip.filter((element, index) => index !== i) (line 443)
FilterIndex(list, i) ==
    IF i < 0 \/ i >= Len(list) THEN list
    ELSE [k \in 1..(Len(list) - 1) |-> IF k - 1 < i THEN list[k] ELSE list[k + 1]]

\* the click listener of the Remove button of the k-th item (lines 442-445)
Remove(k) ==
    /\ LET shown == updateFileDisplay(FilterIndex(files_to_zip, file_display[k].i))
       IN  /\ files_to_zip' = shown.files_to_zip
           /\ file_display' = shown.file_display
    /\ UNCHANGED <<input_path, file_selector, readers, files, zip, crc_data, crc_value,
                   end_in, end_out>>

\* createZIPWithFile (lines 514-522): the Blob built from files_to_zip is downloaded
createZIPWithFile ==
    /\ files' = files_to_zip
    /\ zip' = [built |-> TRUE, blob |-> createZIP(files_to_zip)]
    /\ UNCHANGED <<ui_vars, crc_data, crc_value, end_in, end_out>>

NoCall == <<>>

Init ==
    /\ files_to_zip = <<>>                               \* line 238
    /\ file_display = <<>>
    /\ input_path = <<>>
    /\ file_selector = <<>>
    /\ readers = <<>>
    /\ files = <<>>
    /\ zip = NotBuilt
    /\ crc_data = <<>>
    /\ crc_value = NoCall
    /\ end_in = NoCall
    /\ end_out = NoCall

Next ==
    \/ \E p \in PathTexts : TypePath(p)
    \/ \E fl \in {<<>>} \cup {<<f>> : f \in SelectableFiles} : SelectFile(fl)
    \/ addFile
    \/ \E r \in 1..Len(readers) : onload(r)
    \/ addDirectory
    \/ \E k \in 1..Len(file_display) : Remove(k)
    \/ createZIPWithFile

Spec == Init /\ [][Next]_vars

\* the handlers that change the pending list and its display, without the download
NextList ==
    \/ \E p \in PathTexts : TypePath(p)
    \/ \E fl \in {<<>>} \cup {<<f>> : f \in SelectableFiles} : SelectFile(fl)
    \/ addFile
    \/ \E r \in 1..Len(readers) : onload(r)
    \/ addDirectory
    \/ \E k \in 1..Len(file_display) : Remove(k)

SpecList == Init /\ [][NextList]_vars

(***************************************************************************)
(* createZIP called on its own, on any list of entries.                    *)
(***************************************************************************)
InputNames == {<<>>, <<97>>, <<97, 47>>, <<233>>, <<233, 47>>, <<98>>}
InputDatas == {<<>>, <<97>>, <<0, 255>>}
InputEntries == [name : InputNames, data : InputDatas]
InputLists == UNION {[1..n -> InputEntries] : n \in 0..MaxEntries}

InitBuild ==
    /\ files \in InputLists
    /\ zip = NotBuilt
    /\ files_to_zip = <<>>
    /\ file_display = <<>>
    /\ input_path = <<>>
    /\ file_selector = <<>>
    /\ readers = <<>>
    /\ crc_data = <<>>
    /\ crc_value = NoCall
    /\ end_in = NoCall
    /\ end_out = NoCall

Build ==
    /\ ~zip.built
    /\ zip' = [built |-> TRUE, blob |-> createZIP(files)]
    /\ UNCHANGED <<ui_vars, files, crc_data, crc_value, end_in, end_out>>

SpecBuild == InitBuild /\ [][Build]_vars

(***************************************************************************)
(* calcCRC32 called on its own.                                            *)
(***************************************************************************)
CrcBytes == {0, 1, 97, 128, 255}
CrcInputs == UNION {[1..n -> CrcBytes] : n \in 0..MaxCrcLen}

InitCRC ==
    /\ crc_data \in CrcInputs
    /\ crc_value = NoCall
    /\ files_to_zip = <<>>
    /\ file_display = <<>>
    /\ input_path = <<>>
    /\ file_selector = <<>>
    /\ readers = <<>>
    /\ files = <<>>
    /\ zip = NotBuilt
    /\ end_in = NoCall
    /\ end_out = NoCall

Compute ==
    /\ crc_value = NoCall
    /\ crc_value' = calcCRC32(crc_data)
    /\ UNCHANGED <<ui_vars, files, zip, crc_data, end_in, end_out>>

SpecCRC == InitCRC /\ [][Compute]_vars

(***************************************************************************)
(* The end of central directory block on its own, entered as the two loops *)
(* leave it after count entries named "a" holding data_total bytes in all: *)
(* offset_count advanced by 30 + 1 per entry and by the data in the first  *)
(* loop, by 46 + 1 per entry in the second.                                *)
(***************************************************************************)
EntryCounts == (0..MaxCount) \cup ((Half - MaxCount)..(Half + MaxCount))
DataTotals == {<<0, 0>>, <<Half - 1, 0>>, <<Half, 0>>}   \* 0, 2^32 - 2^16, 2^32

AtEndRecord(count, data_total) ==
    LET central_dir_offset == NumAdd(Num(count * (LocalHeaderSize + 1)), data_total)
    IN  [length |-> Num(count),
         central_dir_offset |-> central_dir_offset,
         offset_count |-> NumAdd(central_dir_offset, Num(count * (CentralHeaderSize + 1)))]

InitEndRecord ==
    /\ \E count \in EntryCounts : \E data_total \in DataTotals :
           /\ count < 4 => data_total = <<0, 0>>
           /\ end_in = AtEndRecord(count, data_total)
    /\ end_out = NoCall
    /\ files_to_zip = <<>>
    /\ file_display = <<>>
    /\ input_path = <<>>
    /\ file_selector = <<>>
    /\ readers = <<>>
    /\ files = <<>>
    /\ zip = NotBuilt
    /\ crc_data = <<>>
    /\ crc_value = NoCall

WriteEndRecord ==
    /\ end_out = NoCall
    /\ end_out' = Bytes(EndRecord(end_in.length, end_in.offset_count,
                                  end_in.central_dir_offset))
    /\ UNCHANGED <<ui_vars, files, zip, crc_data, crc_value, end_in>>

SpecEndRecord == InitEndRecord /\ [][WriteEndRecord]_vars

(***************************************************************************)
(* Reading an archive back.  Positions are byte offsets into the output,   *)
(* counted on the bytes themselves: a name takes the bytes of its UTF-8    *)
(* encoding.                                                               *)
(***************************************************************************)
EndsWithSlash(name) == name # <<>> /\ name[Len(name)] = 47

\* bytes of the first k local file sections, and of the first k central records
RECURSIVE LocalBytes(_, _)
LocalBytes(fs, k) ==
    IF k = 0 THEN 0
    ELSE LocalBytes(fs, k - 1) + 30 + Len(UTF8(fs[k].name)) + Len(fs[k].data)

RECURSIVE CentralBytes(_, _)
CentralBytes(fs, k) ==
    IF k = 0 THEN 0
    ELSE CentralBytes(fs, k - 1) + 46 + Len(UTF8(fs[k].name))

LocalStart(fs, k) == LocalBytes(fs, k - 1)
CentralStart(fs, k) == LocalBytes(fs, Len(fs)) + CentralBytes(fs, k - 1)
EndStart(fs) == LocalBytes(fs, Len(fs)) + CentralBytes(fs, Len(fs))

\* offset_count as createZIP counts it when its first loop reaches entry k
RECURSIVE CountedBefore(_, _)
CountedBefore(fs, k) ==
    IF k = 1 THEN 0
    ELSE CountedBefore(fs, k - 1) + 30 + Len(fs[k - 1].name) + Len(fs[k - 1].data)

\* the little-endian fields at offset p of bytes, the 4-byte one as a limb pair
U16(bytes, p) == bytes[p + 1] + 256 * bytes[p + 2]
U32(bytes, p) == <<U16(bytes, p + 2), U16(bytes, p)>>
Slice(bytes, p, n) == SubSeq(bytes, p + 1, p + n)

(***************************************************************************)
(* The reference CRC-32 procedure, on unsigned registers.                  *)
(***************************************************************************)
RefShift(r) == <<r[1] \div 2, (r[2] \div 2) + 32768 * (r[1] % 2)>>

RECURSIVE RefRounds(_, _)
RefRounds(r, n) ==
    IF n = 0 THEN r
    ELSE Only({RefRounds(x, n - 1) :
               x \in {IF r[2] % 2 = 1
                      THEN <<XorBits(RefShift(r)[1], 60856, 16),
                             XorBits(RefShift(r)[2], 33568, 16)>>
                      ELSE RefShift(r)}})

RECURSIVE RefRegister(_, _)
RefRegister(data, n) ==
    IF n = 0 THEN <<65535, 65535>>
    ELSE Only({RefRounds(<<r[1], XorBits(r[2], data[n], 16)>>, 8) :
               r \in {RefRegister(data, n - 1)}})

RefCRC32(data) == Only({<<65535 - r[1], 65535 - r[2]>> : r \in {RefRegister(data, Len(data))}})

(***************************************************************************)
(* The claims.                                                             *)
(***************************************************************************)

\* C1: in every archive createZIP returns, the local-header-offset field (bytes
\* 42..45) of the k-th central directory header equals the number of bytes of the
\* output that precede the k-th local file header.
C1_OffsetsMatchOutput ==
    zip.built =>
        \A k \in 1..Len(files) :
            U32(zip.blob, CentralStart(files, k) + 42) = Num(LocalStart(files, k))

\* C2: in the end of central directory record both entry counts equal the number
\* of entries, the size field equals the bytes of the central directory and the
\* offset field the bytes of the local file sections; the archive of the empty
\* list is the 22-byte record alone with these four fields 0.
C2_EndRecordMatchesOutput ==
    zip.built =>
        LET e == EndStart(files)
        IN  /\ U16(zip.blob, e + 8) = Len(files)
            /\ U16(zip.blob, e + 10) = Len(files)
            /\ U32(zip.blob, e + 12) = Num(CentralBytes(files, Len(files)))
            /\ U32(zip.blob, e + 16) = Num(LocalBytes(files, Len(files)))
            /\ files = <<>> =>
                   /\ Len(zip.blob) = 22
                   /\ U16(zip.blob, 8) = 0 /\ U16(zip.blob, 10) = 0
                   /\ U32(zip.blob, 12) = <<0, 0>> /\ U32(zip.blob, 16) = <<0, 0>>

\* C3: an end of central directory record is written only when the entry count is
\* at most 65535 and the size and the offset of the central directory are at most
\* 2^32 - 1, so that each of its fields holds the true value, never the true value
\* reduced modulo 2^16 or 2^32.
C3_CapacityChecked ==
    end_out # NoCall =>
        /\ <<0, U16(end_out, 8)>> = end_in.length
        /\ <<0, U16(end_out, 10)>> = end_in.length
        /\ U32(end_out, 12) = NumSub(end_in.offset_count, end_in.central_dir_offset)
        /\ U32(end_out, 16) = end_in.central_dir_offset

\* C4: createZIP returns no archive for a list in which a name ending in "/" comes
\* with non-empty data, or in which a name is longer than 65535 bytes.
C4_InvalidEntryRejected ==
    zip.built =>
        \A k \in 1..Len(files) :
            /\ ~(EndsWithSlash(files[k].name) /\ files[k].data # <<>>)
            /\ Len(UTF8(files[k].name)) <= 65535

\* C5: an entry is flagged a directory exactly when its name ends in "/"; a
\* directory has version-needed 20 and CRC-32, compressed size and uncompressed
\* size 0 in its local and in its central header, any other entry version-needed
\* 10, the CRC-32 of its data and the length of its data in both.
C5_DirectoryFields ==
    zip.built =>
        \A k \in 1..Len(files) :
            LET name == files[k].name
                data == files[k].data
                l == LocalStart(files, k)
                c == CentralStart(files, k)
            IN  /\ is_dir(name) <=> EndsWithSlash(name)
                /\ EndsWithSlash(name) =>
                       /\ U16(zip.blob, l + 4) = 20 /\ U16(zip.blob, c + 6) = 20
                       /\ U32(zip.blob, l + 14) = <<0, 0>> /\ U32(zip.blob, c + 16) = <<0, 0>>
                       /\ U32(zip.blob, l + 18) = <<0, 0>> /\ U32(zip.blob, c + 20) = <<0, 0>>
                       /\ U32(zip.blob, l + 22) = <<0, 0>> /\ U32(zip.blob, c + 24) = <<0, 0>>
                /\ ~EndsWithSlash(name) =>
                       /\ U16(zip.blob, l + 4) = 10 /\ U16(zip.blob, c + 6) = 10
                       /\ U32(zip.blob, l + 14) = RefCRC32(data)
                       /\ U32(zip.blob, c + 16) = RefCRC32(data)
                       /\ U32(zip.blob, l + 18) = Num(Len(data))
                       /\ U32(zip.blob, c + 20) = Num(Len(data))
                       /\ U32(zip.blob, l + 22) = Num(Len(data))
                       /\ U32(zip.blob, c + 24) = Num(Len(data))

C5_Witness ==
    /\ zip.built
    /\ \E k \in 1..Len(files) : EndsWithSlash(files[k].name)
    /\ \E k \in 1..Len(files) : ~EndsWithSlash(files[k].name) /\ files[k].data # <<>>

\* C6: in every central directory header the external file attributes (bytes
\* 38..41) hold the UNIX mode in the high-order 16 bits, octal 040755 for a
\* directory and 100644 for a file, and 0 in the low-order 16; the internal
\* attributes (36..37) stay 0 and the local header offset (42..45) stays the
\* offset createZIP recorded for the entry.
C6_ExternalAttributes ==
    zip.built =>
        \A k \in 1..Len(files) :
            LET c == CentralStart(files, k)
            IN  /\ U16(zip.blob, c + 38) = 0
                /\ U16(zip.blob, c + 40) =
                       (IF EndsWithSlash(files[k].name) THEN 16877 ELSE 33188)
                /\ U16(zip.blob, c + 36) = 0
                /\ U32(zip.blob, c + 42) = Num(CountedBefore(files, k))

C6_Witness ==
    /\ zip.built
    /\ Len(files) >= 2
    /\ EndsWithSlash(files[Len(files)].name)
    /\ \E k \in 1..Len(files) : ~EndsWithSlash(files[k].name)

\* C7: calcCRC32 returns what the reference CRC-32 procedure returns, a value in
\* 0..2^32-1, and 0 for the empty sequence (and 0xE8B7BE43 for the one byte "a").
C7_ReferenceCRC ==
    crc_value # NoCall =>
        /\ crc_value = RefCRC32(crc_data)
        /\ crc_value[1] \in 0..65535 /\ crc_value[2] \in 0..65535
        /\ crc_data = <<>> => crc_value = <<0, 0>>
        /\ crc_data = <<97>> => crc_value = <<59575, 48707>>

C7_Witness ==
    /\ crc_value # NoCall
    /\ Len(crc_data) >= 2
    /\ crc_value[1] >= 32768

\* C8: the entries are never reordered and the phases never interleave: the k-th
\* local file section (signature, name, data) and the k-th central directory
\* record (signature, name) are those of the k-th entry of the list, all local
\* file sections come before all central directory records, and the end of
\* central directory record comes once, last.
C8_PhasesInOrder ==
    zip.built =>
        /\ \A k \in 1..Len(files) :
               LET name == UTF8(files[k].name)
                   l == LocalStart(files, k)
                   c == CentralStart(files, k)
               IN  /\ U32(zip.blob, l) = <<1027, 19280>>
                   /\ Slice(zip.blob, l + 30, Len(name)) = name
                   /\ Slice(zip.blob, l + 30 + Len(name), Len(files[k].data)) = files[k].data
                   /\ l + 30 + Len(name) + Len(files[k].data) <= CentralStart(files, 1)
                   /\ U32(zip.blob, c) = <<513, 19280>>
                   /\ Slice(zip.blob, c + 46, Len(name)) = name
                   /\ c + 46 + Len(name) <= EndStart(files)
        /\ U32(zip.blob, EndStart(files)) = <<1541, 19280>>
        /\ Len(zip.blob) = EndStart(files) + 22

C8_Witness ==
    /\ zip.built
    /\ Len(files) = 2
    /\ localeCompare(files[1].name, files[2].name) > 0
    /\ files[1].data # <<>>

\* C9: every entry that addDirectory put in files_to_zip has a name ending in "/".
C9_DirectoriesEndInSlash ==
    \A k \in 1..Len(files_to_zip) :
        files_to_zip[k].directory => EndsWithSlash(files_to_zip[k].name)

\* C10: the displayed list and files_to_zip agree position by position: the list
\* is sorted by name, item k shows the name of files_to_zip[k] and its button
\* holds the index of that entry; and a click on the Remove button of item k
\* removes that entry and leaves the others as they were.
DisplayAgrees ==
    /\ Len(file_display) = Len(files_to_zip)
    /\ \A k \in 1..Len(files_to_zip) :
           /\ file_display[k].text = <<32>> \o files_to_zip[k].name
           /\ file_display[k].i = k - 1
    /\ \A k \in 1..(Len(files_to_zip) - 1) :
           localeCompare(files_to_zip[k].name, files_to_zip[k + 1].name) <= 0

Without(list, k) == SubSeq(list, 1, k - 1) \o SubSeq(list, k + 1, Len(list))

C10_DisplayAgrees ==
    /\ []DisplayAgrees
    /\ [][\A k \in 1..Len(file_display) :
              Remove(k) => files_to_zip' = Without(files_to_zip, k)]_vars

C10_Witness ==
    /\ Len(files_to_zip) = 3
    /\ Len(readers) >= 1
    /\ files_to_zip[1].directory /\ files_to_zip[2].directory /\ ~files_to_zip[3].directory
    /\ files_to_zip[1].name # files_to_zip[2].name

====
